---- MODULE Spec2Model ----
(***************************************************************************)
(* A model of github.com/bartdeboer/flag: the argument tokenizer           *)
(* (args.go, ParseArgs), the field coercion (SetField) and the three       *)
(* passes over a configuration record (SetDefaults, ParseEnv, the flags    *)
(* pass) with their orchestration (ParseAll).                              *)
(*                                                                         *)
(* Go strings are TLA+ strings; s[a:b] of Go is SubSeq(s, a+1, b).  Only   *)
(* ASCII text is modelled, so a byte and a character are the same thing.   *)
(* A Go map[string]string is a function whose DOMAIN is its key set.       *)
(***************************************************************************)
EXTENDS Integers, Sequences, FiniteSets, TLC

VARIABLES
    args,            \* ParseArgs: the argument slice being tokenized
    i,               \* ParseArgs: the loop cursor (1-based; Go's i is i-1)
    positionalArgs,  \* ParseArgs: the positional arguments collected so far
    flags,           \* ParseArgs: the flag mapping built so far
    pcArgs,          \* ParseArgs: "idle", "loop" (inside the for) or "done"
    intSize,         \* the build: the width of int and uint, 32 or 64
    kind,            \* SetField: field.Kind(), and for a slice its element kind
    field,           \* SetField: the field's value
    value,           \* SetField: the string to coerce
    exists,          \* SetField: whether the value was explicitly present
    setErr,          \* SetField: the error returned
    fieldBefore,     \* SetField: the field's value at the call
    pcSet,           \* SetField: "idle", "call" or "returned"
    fields,          \* the configuration record's type: its field descriptors
    cfg,             \* the configuration record: the value of each field
    env,             \* the process environment, a map from name to value
    osArgs,          \* the raw argument list given to ParseAll or the flags pass
    caller,          \* "ParseAll", or "direct": the three passes called in turn
    pc,              \* the call to make next, "done" after the last, or "idle"
    err,             \* the error returned to the caller
    outArgs,         \* the positional arguments returned to the caller
    stdout,          \* the usage blocks PrintDefaults has written
    hist             \* the record at the start and after each pass that ran

tokVars == <<args, i, positionalArgs, flags, pcArgs>>

setVars == <<kind, field, value, exists, setErr, fieldBefore, pcSet>>

pipeVars == <<fields, cfg, env, osArgs, caller, pc, err, outArgs, stdout, hist>>

vars == <<args, i, positionalArgs, flags, pcArgs, intSize,
          kind, field, value, exists, setErr, fieldBefore, pcSet,
          fields, cfg, env, osArgs, caller, pc, err, outArgs, stdout, hist>>

(***************************************************************************)
(* Bounds of the tokenizer's inputs.                                       *)
(***************************************************************************)
\* An argument list costs one per token plus one per character of it.
MaxWeight == 8

Alphabet == {"-", "=", "k", "v"}

\* The longest literal SetField is given, the listed ones apart.
MaxLitLen == 3

LitAlphabet == {"-", "+", "0", "1", "3", "9", "x", ","}

RECURSIVE Strs(_)
\* Every string over Alphabet of at most n characters.
Strs(n) == IF n = 0 THEN {""}
           ELSE {""} \cup {c \o s : c \in Alphabet, s \in Strs(n - 1)}

RECURSIVE Words(_, _)
\* The tokens of a command line in which a space ends every token.
Words(line, tok) ==
    IF line = "" THEN <<>>
    ELSE IF SubSeq(line, 1, 1) = " " THEN <<tok>> \o Words(Tail(line), "")
    ELSE Words(Tail(line), tok \o SubSeq(line, 1, 1))

RECURSIVE Lines(_)
Lines(n) == IF n = 0 THEN {""}
            ELSE {""} \cup {c \o s : c \in Alphabet \cup {" "}, s \in Lines(n - 1)}

\* Every argument list of weight at most w.
ArgLists(w) == {Words(l \o " ", "") : l \in Lines(w - 1)} \cup {<<>>}

(***************************************************************************)
(* strings: the functions of Go's strings package that the code calls.     *)
(***************************************************************************)
HasPrefix(s, p) == Len(s) >= Len(p) /\ SubSeq(s, 1, Len(p)) = p

Contains(s, c) == \E n \in 1..(Len(s) - Len(c) + 1) : SubSeq(s, n, n + Len(c) - 1) = c

\* The 1-based place of the first occurrence of the one-character string c.
Index(s, c) == CHOOSE n \in 1..Len(s) :
                   /\ SubSeq(s, n, n) = c
                   /\ \A m \in 1..(n - 1) : SubSeq(s, m, m) # c

\* strings.SplitN(s, c, 2) for an s that contains c: <<before, after>>.
SplitN2(s, c) == <<SubSeq(s, 1, Index(s, c) - 1),
                   SubSeq(s, Index(s, c) + 1, Len(s))>>

\* Go's s[n:], n counted from 0.
From(s, n) == SubSeq(s, n + 1, Len(s))

(***************************************************************************)
(* map[string]string                                                       *)
(***************************************************************************)
EmptyMap == [k \in {} |-> ""]

Put(m, k, v) == [x \in DOMAIN m \cup {k} |-> IF x = k THEN v ELSE m[x]]

(***************************************************************************)
(* ParseArgs (args.go).  A loop state st is [i, positionalArgs, flags].    *)
(***************************************************************************)
hasMoreArgs(a, n) == n + 1 <= Len(a)

\* A slip: any next token is taken to be a value.
nextArgIsValue_AnyNext(a, n) == hasMoreArgs(a, n)

nextArgIsValue(a, n) == hasMoreArgs(a, n) /\ ~HasPrefix(a[n + 1], "-")

\* arg starts with "--": --key=value, --key value, --key.
LongFlag(a, st) ==
    LET arg == a[st.i]
        key == From(arg, 2)
    IN  IF Contains(key, "=")
        THEN [st EXCEPT !.flags = Put(@, SplitN2(key, "=")[1], SplitN2(key, "=")[2])]
        ELSE IF nextArgIsValue(a, st.i)
        THEN [st EXCEPT !.flags = Put(@, key, a[st.i + 1]), !.i = @ + 1]
        ELSE [st EXCEPT !.flags = Put(@, key, "")]

\* arg is -k, or the text after its second character holds "=".
ShortFlag(a, st) ==
    LET arg == a[st.i]
    IN  IF Contains(From(arg, 2), "=")
        THEN [st EXCEPT !.flags = Put(@, SplitN2(From(arg, 2), "=")[1],
                                         SplitN2(From(arg, 2), "=")[2])]
        ELSE IF nextArgIsValue(a, st.i)
        THEN [st EXCEPT !.flags = Put(@, SubSeq(arg, 2, 2), a[st.i + 1]), !.i = @ + 1]
        ELSE [st EXCEPT !.flags = Put(@, SubSeq(arg, 2, 2), "")]

RECURSIVE PutEach(_, _)
\* for _, flag := range s { flags[string(flag)] = "" }
PutEach(m, s) == IF s = "" THEN m ELSE PutEach(Put(m, SubSeq(s, 1, 1), ""), Tail(s))

\* Combined flags such as -abc.
CombinedFlags(a, st) ==
    [st EXCEPT !.flags = PutEach(@, From(a[st.i], 1))]

\* A slip: the positional token is not appended.
Positional_Dropped(a, st) == st

Positional(a, st) ==
    [st EXCEPT !.positionalArgs = Append(@, a[st.i])]

\* One iteration of the for loop, the closing i++ included.
ParseArgsIter(a, st) ==
    LET arg == a[st.i]
        out == IF HasPrefix(arg, "--") THEN LongFlag(a, st)
               ELSE IF HasPrefix(arg, "-") /\ Len(arg) > 1
               THEN IF Len(arg) = 2 \/ Contains(From(arg, 2), "=")
                    THEN ShortFlag(a, st)
                    ELSE CombinedFlags(a, st)
               ELSE Positional(a, st)
    IN  [out EXCEPT !.i = @ + 1]

ParseArgsStart == [i |-> 1, positionalArgs |-> <<>>, flags |-> EmptyMap]

RECURSIVE ParseArgsLoop(_, _)
ParseArgsLoop(a, st) ==
    IF st.i <= Len(a) THEN ParseArgsLoop(a, ParseArgsIter(a, st)) ELSE st

\* The whole call: its record holds the two results.
ParseArgs(a) == ParseArgsLoop(a, ParseArgsStart)

(***************************************************************************)
(* strconv, as SetField calls it: ParseInt(value, 10, 64),                 *)
(* ParseUint(value, 10, 64) and ParseBool(value).  A 64-bit number is held *)
(* as four 16-bit limbs, least significant first (TLC's own integers are   *)
(* 32 bits wide); a signed number is its two's complement.                 *)
(***************************************************************************)
NoError == "<nil>"

ErrSyntax == "invalid syntax"

ErrRange == "value out of range"

\* (*strconv.NumError).Error()
NumError(fn, num, e) == "strconv." \o fn \o ": parsing \"" \o num \o "\": " \o e

Digits == "0123456789"

\* The value of each digit character.
DigitOf == [c \in {SubSeq(Digits, n, n) : n \in 1..Len(Digits)} |-> Index(Digits, c) - 1]

IsDigit(c) == c \in DOMAIN DigitOf

DigitVal(c) == DigitOf[c]

Limb == 2 ^ 16

ZeroBits == <<0, 0, 0, 0>>

\* n*10 + d on limbs: the new limbs and the carry out of the 64 bits.
MulAdd(n, d) ==
    LET t1 == n[1] * 10 + d
        t2 == n[2] * 10 + t1 \div Limb
        t3 == n[3] * 10 + t2 \div Limb
        t4 == n[4] * 10 + t3 \div Limb
    IN  [bits |-> <<t1 % Limb, t2 % Limb, t3 % Limb, t4 % Limb>>,
         carry |-> t4 \div Limb]

RECURSIVE ParseUintLoop(_, _)
\* The digit loop of ParseUint: a character that is no digit is a syntax
\* error, a number past 64 bits a range error, whichever comes first.
ParseUintLoop(s, n) ==
    IF s = "" THEN [err |-> NoError, bits |-> n]
    ELSE IF ~IsDigit(SubSeq(s, 1, 1)) THEN [err |-> ErrSyntax, bits |-> ZeroBits]
    ELSE LET m == MulAdd(n, DigitVal(SubSeq(s, 1, 1)))
         IN  IF m.carry > 0 THEN [err |-> ErrRange, bits |-> ZeroBits]
             ELSE ParseUintLoop(Tail(s), m.bits)

\* The unsigned number of s, or the kind of error.
ParseUintRaw(s) ==
    IF s = "" THEN [err |-> ErrSyntax, bits |-> ZeroBits]
    ELSE ParseUintLoop(s, ZeroBits)

\* ParseUint's result: r is what the digit loop made of s.
ParseUintResult(s, r) ==
    IF r.err = NoError THEN r
    ELSE [err |-> NumError("ParseUint", s, r.err), bits |-> ZeroBits]

ParseUint(s) == ParseUintResult(s, ParseUintRaw(s))

\* -n in two's complement on 64 bits.
Negate(n) ==
    LET t1 == (Limb - 1 - n[1]) + 1
        t2 == (Limb - 1 - n[2]) + t1 \div Limb
        t3 == (Limb - 1 - n[3]) + t2 \div Limb
        t4 == (Limb - 1 - n[4]) + t3 \div Limb
    IN  <<t1 % Limb, t2 % Limb, t3 % Limb, t4 % Limb>>

\* un >= 1<<63, and un > 1<<63
AtLeastCutoff(n) == n[4] >= Limb \div 2

AboveCutoff(n) == n[4] > Limb \div 2 \/ (n[4] = Limb \div 2 /\ <<n[1], n[2], n[3]>> # <<0, 0, 0>>)

\* ParseInt once the sign is off: un is what ParseUint made of the rest.
ParseIntSigned(s, neg, un) ==
    IF s = "" \/ un.err = ErrSyntax
    THEN [err |-> NumError("ParseInt", s, ErrSyntax), bits |-> ZeroBits]
    ELSE IF \/ un.err = ErrRange
            \/ ~neg /\ AtLeastCutoff(un.bits)
            \/ neg /\ AboveCutoff(un.bits)
    THEN [err |-> NumError("ParseInt", s, ErrRange), bits |-> ZeroBits]
    ELSE [err |-> NoError, bits |-> IF neg THEN Negate(un.bits) ELSE un.bits]

ParseInt(s) ==
    ParseIntSigned(s, s # "" /\ SubSeq(s, 1, 1) = "-",
                   ParseUintRaw(IF s # "" /\ SubSeq(s, 1, 1) \in {"+", "-"}
                                THEN Tail(s) ELSE s))

ParseBool(s) ==
    IF s \in {"1", "t", "T", "TRUE", "true", "True"}
    THEN [err |-> NoError, b |-> TRUE]
    ELSE IF s \in {"0", "f", "F", "FALSE", "false", "False"}
    THEN [err |-> NoError, b |-> FALSE]
    ELSE [err |-> NumError("ParseBool", s, ErrSyntax), b |-> FALSE]

RECURSIVE Split(_, _)
\* strings.Split(s, sep) for a one-character sep.
Split(s, sep) ==
    IF ~Contains(s, sep) THEN <<s>>
    ELSE <<SplitN2(s, sep)[1]>> \o Split(SplitN2(s, sep)[2], sep)

(***************************************************************************)
(* SetField.  The kinds modelled: the string, the ten integer kinds, bool, *)
(* a slice of strings, a slice of anything else ("[]int") and a kind with  *)
(* no rule that implements no TextUnmarshaler ("struct").  The float kinds *)
(* and the TextUnmarshaler types are left out: no property here reads them.*)
(***************************************************************************)
IntKinds == {"int", "int8", "int16", "int32", "int64"}

UintKinds == {"uint", "uint8", "uint16", "uint32", "uint64"}

Kinds == {"string", "bool", "[]string", "[]int", "struct"} \cup IntKinds \cup UintKinds

\* The width in bits of an integer kind.
Width(k) ==
    CASE k \in {"int8", "uint8"} -> 8
      [] k \in {"int16", "uint16"} -> 16
      [] k \in {"int32", "uint32"} -> 32
      [] k \in {"int64", "uint64"} -> 64
      [] k \in {"int", "uint"} -> intSize

\* reflect's SetInt and SetUint store x converted to the field's own type:
\* the low w bits of x.
Truncate(bits, w) ==
    IF w = 8 THEN <<bits[1] % 2 ^ 8>> ELSE SubSeq(bits, 1, w \div 16)

\* The zero value of a field of kind k.
Zero(k) ==
    CASE k = "string" -> ""
      [] k = "bool" -> FALSE
      [] k \in {"[]string", "[]int"} -> <<>>
      [] k = "struct" -> <<>>
      [] k \in IntKinds \cup UintKinds -> Truncate(ZeroBits, Width(k))

\* A slip: a literal that does not parse resets the field to zero.
IntField_ZeroOnError(cur, p, w) ==
    IF p.err # NoError THEN [val |-> Truncate(ZeroBits, w), err |-> p.err]
    ELSE [val |-> Truncate(p.bits, w), err |-> NoError]

\* The integer cases once the literal is parsed: on an error the field is
\* left alone, else it is set to the number cut to the field's width w.
IntField(cur, p, w) ==
    IF p.err # NoError THEN [val |-> cur, err |-> p.err]
    ELSE [val |-> Truncate(p.bits, w), err |-> NoError]

\* A slip: the bare-flag rule is applied whether or not the value is present.
BoolField_IgnoresExists(cur, v, ex, p) ==
    IF v = "" THEN [val |-> TRUE, err |-> NoError]
    ELSE IF p.err # NoError THEN [val |-> cur, err |-> p.err]
    ELSE [val |-> p.b, err |-> NoError]

\* A slip: a value that is present makes the field true whatever it says.
BoolField_PresenceWins(cur, v, ex, p) ==
    IF ex THEN [val |-> TRUE, err |-> NoError]
    ELSE IF p.err # NoError THEN [val |-> cur, err |-> p.err]
    ELSE [val |-> p.b, err |-> NoError]

\* case reflect.Bool, p being what ParseBool makes of the value.
BoolField(cur, v, ex, p) ==
    IF ex /\ v = "" THEN [val |-> TRUE, err |-> NoError]
    ELSE IF p.err # NoError THEN [val |-> cur, err |-> p.err]
    ELSE [val |-> p.b, err |-> NoError]

\* SetField(field, value, exists) on a field of kind k holding cur: the value
\* the field holds afterwards, and the error returned.
SetField(k, cur, v, ex) ==
    CASE k = "string" -> [val |-> v, err |-> NoError]
      [] k \in IntKinds -> IntField(cur, ParseInt(v), Width(k))
      [] k \in UintKinds -> IntField(cur, ParseUint(v), Width(k))
      [] k = "bool" -> BoolField(cur, v, ex, ParseBool(v))
      [] k = "[]string" -> [val |-> Split(v, ","), err |-> NoError]
      [] k = "[]int" ->
            [val |-> cur, err |-> "complex slice types are not supported yet"]
      [] k = "struct" -> [val |-> cur, err |-> "unsupported flag type"]

(***************************************************************************)
(* words.ToKebabCase and words.ToConstantCase, of the package              *)
(* github.com/bartdeboer/words, on a CamelCase identifier: HostName gives  *)
(* host-name and HOST_NAME.                                                *)
(***************************************************************************)
UpperLetters == "ABCDEFGHIJKLMNOPQRSTUVWXYZ"

LowerLetters == "abcdefghijklmnopqrstuvwxyz"

\* The letter pairs, as two tables.
LowerOf == [c \in {SubSeq(UpperLetters, n, n) : n \in 1..Len(UpperLetters)} |->
               SubSeq(LowerLetters, Index(UpperLetters, c), Index(UpperLetters, c))]

UpperOf == [c \in {SubSeq(LowerLetters, n, n) : n \in 1..Len(LowerLetters)} |->
               SubSeq(UpperLetters, Index(LowerLetters, c), Index(LowerLetters, c))]

IsUpper(c) == c \in DOMAIN LowerOf

ToLower(c) == IF c \in DOMAIN LowerOf THEN LowerOf[c] ELSE c

ToUpper(c) == IF c \in DOMAIN UpperOf THEN UpperOf[c] ELSE c

RECURSIVE KebabFrom(_, _)
KebabFrom(s, n) ==
    IF n > Len(s) THEN ""
    ELSE (IF n > 1 /\ IsUpper(SubSeq(s, n, n)) THEN "-" ELSE "")
         \o ToLower(SubSeq(s, n, n)) \o KebabFrom(s, n + 1)

ToKebabCase(s) == KebabFrom(s, 1)

RECURSIVE ConstantFrom(_, _)
ConstantFrom(s, n) ==
    IF n > Len(s) THEN ""
    ELSE (IF n > 1 /\ IsUpper(SubSeq(s, n, n)) THEN "_" ELSE "")
         \o ToUpper(SubSeq(s, n, n)) \o ConstantFrom(s, n + 1)

ToConstantCase(s) == ConstantFrom(s, 1)

(***************************************************************************)
(* The passes.  A field descriptor is [name, kind, short, flag, env,       *)
(* default, usage], a tag that is absent being "" as Tag.Get returns it.   *)
(* Every field is exported.  A pass is given the descriptors fs and the    *)
(* record's values c, and gives the values afterwards with the error;      *)
(* SetField works on the field in place, so whatever it leaves in the      *)
(* field, on an error too, is in the record afterwards.                    *)
(***************************************************************************)
\* field.Type.Name(): a slice type has no name.
TypeName(k) == IF k \in {"[]string", "[]int"} THEN "" ELSE k

\* One entry of PrintDefaults: the short part, the long part, the usage.
UsageEntry(f) ==
    <<IF f.short = "" THEN "  " ELSE "-" \o f.short,
      "--" \o ToKebabCase(f.name) \o " " \o TypeName(f.kind),
      f.usage \o (IF f.default \notin {"", "0", "false", "\"\""}
                  THEN " (default " \o f.default \o ")" ELSE "")>>

\* What PrintDefaults writes: the header line, then a line per field (held
\* as its three columns; the padding of the columns is not modelled).
PrintDefaults(fs) ==
    [header |-> "Usage:", entries |-> [k \in 1..Len(fs) |-> UsageEntry(fs[k])]]

RECURSIVE SetDefaultsFrom(_, _, _)
\* Field k of SetDefaults once SetField has returned r: return the error,
\* or go on to the next field.
SetDefaultsField(fs, c, k, r) ==
    IF r.err # NoError
    THEN [cfg |-> [c EXCEPT ![k] = r.val],
          err |-> "error setting default for field " \o fs[k].name \o ": " \o r.err]
    ELSE SetDefaultsFrom(fs, [c EXCEPT ![k] = r.val], k + 1)

\* The loop of SetDefaults from field k on.
SetDefaultsFrom(fs, c, k) ==
    IF k > Len(fs) THEN [cfg |-> c, err |-> NoError]
    ELSE IF fs[k].default = "" THEN SetDefaultsFrom(fs, c, k + 1)
    ELSE SetDefaultsField(fs, c, k,
                          SetField(fs[k].kind, c[k], fs[k].default, FALSE))

SetDefaults(fs, c) == SetDefaultsFrom(fs, c, 1)

\* The environment variable of a field.
EnvName(f) == IF f.env = "" THEN ToConstantCase(f.name) ELSE f.env

RECURSIVE ParseEnvFrom(_, _, _, _)
\* A slip: after an error the loop goes on to the fields that follow.
ParseEnvField_GoesOn(fs, c, e, k, envName, r) ==
    IF r.err # NoError
    THEN [cfg |-> ParseEnvFrom(fs, [c EXCEPT ![k] = r.val], e, k + 1).cfg,
          err |-> "error setting environment variable " \o envName \o ": " \o r.err,
          out |-> <<PrintDefaults(fs)>>]
    ELSE ParseEnvFrom(fs, [c EXCEPT ![k] = r.val], e, k + 1)

\* Field k of ParseEnv once SetField has returned r: print the usage and
\* return the error, or go on to the next field.
ParseEnvField(fs, c, e, k, envName, r) ==
    IF r.err # NoError
    THEN [cfg |-> [c EXCEPT ![k] = r.val],
          err |-> "error setting environment variable " \o envName \o ": " \o r.err,
          out |-> <<PrintDefaults(fs)>>]
    ELSE ParseEnvFrom(fs, [c EXCEPT ![k] = r.val], e, k + 1)

\* Field k of ParseEnv once its variable's name is known.
ParseEnvLookup(fs, c, e, k, envName) ==
    IF envName \notin DOMAIN e THEN ParseEnvFrom(fs, c, e, k + 1)
    ELSE ParseEnvField(fs, c, e, k, envName,
                       SetField(fs[k].kind, c[k], e[envName], TRUE))

\* The loop of ParseEnv from field k on; out is what it wrote to stdout.
ParseEnvFrom(fs, c, e, k) ==
    IF k > Len(fs) THEN [cfg |-> c, err |-> NoError, out |-> <<>>]
    ELSE ParseEnvLookup(fs, c, e, k, EnvName(fs[k]))

ParseEnv(fs, c, e) == ParseEnvFrom(fs, c, e, 1)

\* The long key of a field.
FlagName(f) == IF f.flag = "" THEN ToKebabCase(f.name) ELSE f.flag

\* The key under which the flags pass finds the field's value: the short
\* tag if the mapping has it (for a field with no short tag, the key ""),
\* else the long key; found is whether the mapping has that key.
FlagLookup(shortName, flagName, fl) ==
    [found |-> shortName \in DOMAIN fl \/ flagName \in DOMAIN fl,
     key   |-> IF shortName \in DOMAIN fl THEN shortName ELSE flagName]

RECURSIVE SetFlagsFrom(_, _, _, _)
\* A slip: the error is returned without the usage being printed.
SetFlagsField_Quiet(fs, c, fl, k, flagName, r) ==
    IF r.err # NoError
    THEN [cfg |-> [c EXCEPT ![k] = r.val],
          err |-> "error parsing flag --" \o flagName \o ": " \o r.err,
          out |-> <<>>]
    ELSE SetFlagsFrom(fs, [c EXCEPT ![k] = r.val], fl, k + 1)

\* Field k of the flags pass once SetField has returned r: print the usage
\* and return the error, or go on to the next field.
SetFlagsField(fs, c, fl, k, flagName, r) ==
    IF r.err # NoError
    THEN [cfg |-> [c EXCEPT ![k] = r.val],
          err |-> "error parsing flag --" \o flagName \o ": " \o r.err,
          out |-> <<PrintDefaults(fs)>>]
    ELSE SetFlagsFrom(fs, [c EXCEPT ![k] = r.val], fl, k + 1)

\* Field k of the flags pass once its keys are looked up.
SetFlagsLookup(fs, c, fl, k, flagName, look) ==
    IF ~look.found THEN SetFlagsFrom(fs, c, fl, k + 1)
    ELSE SetFlagsField(fs, c, fl, k, flagName,
                       SetField(fs[k].kind, c[k], fl[look.key], TRUE))

\* The field loop of the flags pass from field k on.
SetFlagsFrom(fs, c, fl, k) ==
    IF k > Len(fs) THEN [cfg |-> c, err |-> NoError, out |-> <<>>]
    ELSE SetFlagsLookup(fs, c, fl, k, FlagName(fs[k]),
                        FlagLookup(fs[k].short, FlagName(fs[k]), fl))

SetFlags(fs, c, fl) == SetFlagsFrom(fs, c, fl, 1)

\* A returned []string: nil, or a slice.
NilArgs == [nil |-> TRUE, list |-> <<>>]

SomeArgs(l) == [nil |-> FALSE, list |-> l]

\* The flags pass, ParseArgs(config, args): tokenize, then the field loop.
ParseArgsResult(rest, r) ==
    [cfg |-> r.cfg, err |-> r.err, out |-> r.out,
     outArgs |-> IF r.err # NoError THEN NilArgs ELSE SomeArgs(rest)]

ParseArgsTokenized(fs, c, tok) ==
    ParseArgsResult(tok.positionalArgs, SetFlags(fs, c, tok.flags))

ParseArgsConfig(fs, c, a) == ParseArgsTokenized(fs, c, ParseArgs(a))

\* A slip: only the long help token is looked for.
HelpRequested_LongOnly(a) == \E n \in 1..Len(a) : a[n] = "--help"

\* ParseAll's scan of the raw arguments for a help token.
HelpRequested(a) == \E n \in 1..Len(a) : a[n] = "--help" \/ a[n] = "-h"

(***************************************************************************)
(* The tokenizer as a state machine, one loop iteration per step.          *)
(***************************************************************************)
TokIdle ==
    /\ args = <<>>
    /\ i = 1
    /\ positionalArgs = <<>>
    /\ flags = EmptyMap
    /\ pcArgs = "idle"

SetIdle ==
    /\ kind = "string"
    /\ field = ""
    /\ value = ""
    /\ exists = FALSE
    /\ setErr = NoError
    /\ fieldBefore = ""
    /\ pcSet = "idle"

PipeIdle ==
    /\ fields = <<>>
    /\ cfg = <<>>
    /\ env = EmptyMap
    /\ osArgs = <<>>
    /\ caller = "none"
    /\ pc = "idle"
    /\ err = NoError
    /\ outArgs = NilArgs
    /\ stdout = <<>>
    /\ hist = <<>>

InitArgs ==
    /\ SetIdle
    /\ PipeIdle
    /\ intSize = 64
    /\ args \in ArgLists(MaxWeight)
    /\ i = ParseArgsStart.i
    /\ positionalArgs = ParseArgsStart.positionalArgs
    /\ flags = ParseArgsStart.flags
    /\ pcArgs = "loop"

ParseArgsStep ==
    /\ pcArgs = "loop"
    /\ i <= Len(args)
    /\ \E st \in {ParseArgsIter(args, [i |-> i, positionalArgs |-> positionalArgs,
                                         flags |-> flags])} :
           /\ i' = st.i
           /\ positionalArgs' = st.positionalArgs
           /\ flags' = st.flags
    /\ UNCHANGED <<args, pcArgs, intSize, setVars, pipeVars>>

ParseArgsReturn ==
    /\ pcArgs = "loop"
    /\ i > Len(args)
    /\ pcArgs' = "done"
    /\ UNCHANGED <<args, i, positionalArgs, flags, intSize, setVars, pipeVars>>

NextArgs == ParseArgsStep \/ ParseArgsReturn

(***************************************************************************)
(* SetField as a state machine: one call on one field.                     *)
(***************************************************************************)
\* Literals at the edges of the integer widths, the boolean literals, and
\* a few words.
EdgeLiterals ==
    {"127", "128", "-128", "-129", "255", "256", "300", "0300",
     "32767", "32768", "-32768", "-32769", "65535", "65536",
     "2147483647", "2147483648", "-2147483648", "-2147483649",
     "4294967295", "4294967296",
     "9223372036854775807", "9223372036854775808",
     "-9223372036854775808", "-9223372036854775809",
     "18446744073709551615", "18446744073709551616",
     "99999999999999999999", "123",
     "true", "false", "maybe", "t", "T", "TRUE", "True", "f", "F", "FALSE",
     "False", "hello", "one,two,three"}

RECURSIVE LitStrs(_)
LitStrs(n) == IF n = 0 THEN {""}
              ELSE {""} \cup {c \o s : c \in LitAlphabet, s \in LitStrs(n - 1)}

Literals == EdgeLiterals \cup LitStrs(MaxLitLen)

\* A value a caller may have stored in a field of kind k before the call.
Preset(k) ==
    CASE k = "string" -> "old"
      [] k = "bool" -> TRUE
      [] k \in {"[]string", "[]int"} -> <<"old">>
      [] k = "struct" -> <<>>
      [] k \in IntKinds \cup UintKinds -> Truncate(<<7, 0, 0, 0>>, Width(k))

InitField ==
    /\ TokIdle
    /\ PipeIdle
    /\ intSize \in {32, 64}
    /\ kind \in Kinds
    /\ field \in {Zero(kind), Preset(kind)}
    /\ value \in Literals
    /\ exists \in BOOLEAN
    /\ setErr = NoError
    /\ fieldBefore = field
    /\ pcSet = "call"

SetFieldCall ==
    /\ pcSet = "call"
    /\ \E r \in {SetField(kind, field, value, exists)} :
           /\ field' = r.val
           /\ setErr' = r.err
    /\ pcSet' = "returned"
    /\ UNCHANGED <<kind, value, exists, fieldBefore, intSize, tokVars, pipeVars>>

NextField == SetFieldCall

SpecField == InitField /\ [][NextField]_vars

(***************************************************************************)
(* The passes as a state machine: ParseAll, or a caller that calls         *)
(* SetDefaults, ParseEnv and the flags pass in turn and stops at the first *)
(* error.  One step is one call.                                           *)
(***************************************************************************)
\* The most tokens in a raw argument list.
MaxArgs == 2

Field(n, k, sh, fl, e, d) ==
    [name |-> n, kind |-> k, short |-> sh, flag |-> fl, env |-> e,
     default |-> d, usage |-> n]

\* Record types like those of the tests: a server's settings, and a record
\* whose second default is no integer.
Configs ==
    { << Field("PortNumber", "int8", "p", "port", "PORT", "80"),
         Field("HostName", "string", "", "", "", "localhost"),
         Field("Verbose", "bool", "v", "", "", "false") >>,
      << Field("Debug", "bool", "d", "", "", "true"),
         Field("Retries", "int8", "", "", "", "many"),
         Field("LogLevel", "string", "", "level", "LOG", "info") >> }

Tokens == {"-p", "9", "x", "--port=7", "-v", "--verbose=maybe",
           "--verbose=false", "--host-name=b", "-p=9", "--help", "-h"}

EnvValues == {"1", "x"}

\* Every environment that sets some of the record's variables.
Envs(fs) ==
    UNION { [names -> EnvValues] :
            names \in SUBSET {EnvName(fs[k]) : k \in 1..Len(fs)} }

InitPasses ==
    /\ TokIdle
    /\ SetIdle
    /\ intSize = 64
    /\ fields \in Configs
    /\ cfg \in { [k \in 1..Len(fields) |-> Zero(fields[k].kind)],
                 [k \in 1..Len(fields) |-> Preset(fields[k].kind)] }
    /\ env \in Envs(fields)
    /\ osArgs \in UNION { [1..n -> Tokens] : n \in 0..MaxArgs }
    /\ caller \in {"ParseAll", "direct"}
    /\ pc = "SetDefaults"
    /\ err = NoError
    /\ outArgs = NilArgs
    /\ stdout = <<>>
    /\ hist = <<[pass |-> "start", cfg |-> cfg]>>

\* The error as the caller gets it: ParseAll wraps the pass's error.
Wrapped(prefix, e) == IF caller = "ParseAll" THEN prefix \o e ELSE e

SetDefaultsCall ==
    /\ pc = "SetDefaults"
    /\ \E r \in {SetDefaults(fields, cfg)} :
           /\ cfg' = r.cfg
           /\ hist' = Append(hist, [pass |-> "SetDefaults", cfg |-> r.cfg])
           /\ IF r.err # NoError
              THEN /\ err' = Wrapped("error setting default values: ", r.err)
                   /\ pc' = "done"
              ELSE /\ err' = err
                   /\ pc' = "ParseEnv"
    /\ UNCHANGED <<fields, env, osArgs, caller, outArgs, stdout, intSize,
                   tokVars, setVars>>

ParseEnvCall ==
    /\ pc = "ParseEnv"
    /\ \E r \in {ParseEnv(fields, cfg, env)} :
           /\ cfg' = r.cfg
           /\ stdout' = stdout \o r.out
           /\ hist' = Append(hist, [pass |-> "ParseEnv", cfg |-> r.cfg])
           /\ IF r.err # NoError
              THEN /\ err' = Wrapped("error parsing environment variables: ", r.err)
                   /\ pc' = "done"
              ELSE /\ err' = err
                   /\ pc' = IF caller = "ParseAll" THEN "help" ELSE "ParseArgs"
    /\ UNCHANGED <<fields, env, osArgs, caller, outArgs, intSize,
                   tokVars, setVars>>

\* ParseAll's loop over args, between the environment and the flags pass.
HelpCheck ==
    /\ pc = "help"
    /\ IF HelpRequested(osArgs)
       THEN /\ stdout' = Append(stdout, PrintDefaults(fields))
            /\ outArgs' = NilArgs
            /\ err' = NoError
            /\ pc' = "done"
       ELSE /\ pc' = "ParseArgs"
            /\ UNCHANGED <<stdout, outArgs, err>>
    /\ UNCHANGED <<fields, cfg, env, osArgs, caller, hist, intSize,
                   tokVars, setVars>>

ParseArgsCall ==
    /\ pc = "ParseArgs"
    /\ \E r \in {ParseArgsConfig(fields, cfg, osArgs)} :
           /\ cfg' = r.cfg
           /\ stdout' = stdout \o r.out
           /\ hist' = Append(hist, [pass |-> "ParseArgs", cfg |-> r.cfg])
           /\ outArgs' = r.outArgs
           /\ err' = IF r.err # NoError
                     THEN Wrapped("error parsing command-line arguments: ", r.err)
                     ELSE err
           /\ pc' = "done"
    /\ UNCHANGED <<fields, env, osArgs, caller, intSize, tokVars, setVars>>

NextPasses == SetDefaultsCall \/ ParseEnvCall \/ HelpCheck \/ ParseArgsCall

Spec == InitPasses /\ [][NextPasses]_vars

\* SetField called on its own, and by the passes.
SpecFieldAndPasses == (InitField \/ InitPasses) /\ [][NextField \/ NextPasses]_vars

SpecArgs == InitArgs /\ [][NextArgs]_vars

(***************************************************************************)
(* A caller that calls the passes itself may call the pass it has just     *)
(* called once more, on the same record, environment and arguments.        *)
(***************************************************************************)
\* What a pass returns, in one shape: the record, the error, what was
\* written to stdout and the positional arguments held afterwards.
PassResult(r, out, rest) ==
    [cfg |-> r.cfg, err |-> r.err, out |-> out, outArgs |-> rest]

PassResultOut(r, rest) == PassResult(r, r.out, rest)

\* The pass named p called on the record as it is now.
CallPass(p) ==
    CASE p = "SetDefaults" -> PassResult(SetDefaults(fields, cfg), <<>>, outArgs)
      [] p = "ParseEnv" -> PassResultOut(ParseEnv(fields, cfg, env), outArgs)
      [] p = "ParseArgs" -> ParseArgsConfig(fields, cfg, osArgs)

RepeatPass ==
    /\ caller = "direct"
    /\ pc \in {"ParseEnv", "ParseArgs", "done"}
    /\ \E r \in {CallPass(hist[Len(hist)].pass)} :
           /\ cfg' = r.cfg
           /\ err' = r.err
           /\ stdout' = stdout \o r.out
           /\ outArgs' = r.outArgs
           /\ hist' = Append(hist, [pass |-> hist[Len(hist)].pass, cfg |-> r.cfg])
    /\ pc' = "repeated"
    /\ UNCHANGED <<fields, env, osArgs, caller, intSize, tokVars, setVars>>

NextRepeat == NextPasses \/ RepeatPass

SpecRepeat == InitPasses /\ [][NextRepeat]_vars

(***************************************************************************)
(* What the tokenizer's grammar says of a token, stated apart from the     *)
(* code: used by the properties below.                                     *)
(***************************************************************************)
IsFlagToken(t) == HasPrefix(t, "-") /\ Len(t) > 1

\* --key with no "=", or a two-character short flag -k.
TakesNext(t) ==
    \/ HasPrefix(t, "--") /\ ~Contains(From(t, 2), "=")
    \/ HasPrefix(t, "-") /\ ~HasPrefix(t, "--") /\ Len(t) = 2

\* The key of a token for which TakesNext holds.
KeyOf(t) == IF HasPrefix(t, "--") THEN From(t, 2) ELSE SubSeq(t, 2, 2)

\* A combined short-flag token such as -abc: longer than 2, no "=".
IsCombined(t) ==
    /\ HasPrefix(t, "-") /\ ~HasPrefix(t, "--")
    /\ Len(t) > 2 /\ ~Contains(t, "=")

\* -n=value with a single-character name n.
IsShortEq(t) ==
    /\ Len(t) >= 3
    /\ SubSeq(t, 1, 1) = "-"
    /\ SubSeq(t, 2, 2) \notin {"-", "="}
    /\ SubSeq(t, 3, 3) = "="

RECURSIVE Roles(_, _)
\* The role of every token from place n on: "positional", "flag", or the
\* "value" consumed by the flag token before it.
Roles(a, n) ==
    IF n > Len(a) THEN <<>>
    ELSE IF IsFlagToken(a[n])
    THEN IF TakesNext(a[n]) /\ n < Len(a) /\ ~HasPrefix(a[n + 1], "-")
         THEN <<"flag", "value">> \o Roles(a, n + 2)
         ELSE <<"flag">> \o Roles(a, n + 1)
    ELSE <<"positional">> \o Roles(a, n + 1)

RECURSIVE Pick(_, _, _, _)
\* The tokens of a with role r, in order, from place n on.
Pick(a, roles, r, n) ==
    IF n > Len(a) THEN <<>>
    ELSE (IF roles[n] = r THEN <<a[n]>> ELSE <<>>) \o Pick(a, roles, r, n + 1)

\* The keys of the entries a flag token makes on its own.
EntryKeys(t) == DOMAIN ParseArgs(<<t>>).flags

Iterating == pcArgs = "loop" /\ i <= Len(args)

C4_Step ==
    Iterating =>
        LET t == args[i]
            consumed == i' = i + 2
        IN  /\ i' \in {i + 1, i + 2}
            /\ consumed <=> /\ TakesNext(t)
                            /\ i < Len(args)
                            /\ ~HasPrefix(args[i + 1], "-")
            /\ consumed => /\ positionalArgs' = positionalArgs
                           /\ flags' = Put(flags, KeyOf(t), args[i + 1])
            /\ (TakesNext(t) /\ ~consumed) => flags' = Put(flags, KeyOf(t), "")
            /\ IsCombined(t) =>
                   /\ ~consumed
                   /\ positionalArgs' = positionalArgs
                   /\ DOMAIN flags' = DOMAIN flags \cup
                          {SubSeq(t, n, n) : n \in 2..Len(t)}
                   /\ \A n \in 2..Len(t) : flags'[SubSeq(t, n, n)] = ""

C4_NextTokenConsumption == [][C4_Step]_vars

\* -k -v v: -k is followed by a token starting with "-" and gets "", -v
\* consumes v, and nothing is positional.
C4_Witness ==
    /\ pcArgs = "done"
    /\ args = <<"-k", "-v", "v">>
    /\ positionalArgs = <<>>
    /\ flags = ("k" :> "" @@ "v" :> "v")

(***************************************************************************)
(* C5: an iteration on a token -n=value, n a single character, records     *)
(* flags[n] = value, as --name=value records flags[name] = value, and      *)
(* does not consume the next token.                                        *)
(***************************************************************************)
C5_Step ==
    (Iterating /\ IsShortEq(args[i])) =>
        /\ flags' = Put(flags, SubSeq(args[i], 2, 2), From(args[i], 3))
        /\ positionalArgs' = positionalArgs
        /\ i' = i + 1

C5_ShortEqualsKey == [][C5_Step]_vars

(***************************************************************************)
(* What a decimal literal denotes, stated apart from the code: its sign    *)
(* and digits, and whether its value lies in the range of an integer kind. *)
(***************************************************************************)
IsDecimal(s) ==
    LET body == IF s # "" /\ SubSeq(s, 1, 1) \in {"+", "-"} THEN Tail(s) ELSE s
    IN  body # "" /\ \A n \in 1..Len(body) : IsDigit(SubSeq(body, n, n))

RECURSIVE StripZeros(_)
StripZeros(s) == IF Len(s) > 1 /\ SubSeq(s, 1, 1) = "0" THEN StripZeros(Tail(s)) ELSE s

\* The digits of |s| without leading zeros.
Magnitude(s) ==
    StripZeros(IF SubSeq(s, 1, 1) \in {"+", "-"} THEN Tail(s) ELSE s)

\* a <= b for two digit strings without leading zeros.
DecLeq(a, b) ==
    \/ Len(a) < Len(b)
    \/ /\ Len(a) = Len(b)
       /\ \/ a = b
          \/ \E n \in 1..Len(a) :
                 /\ SubSeq(a, 1, n - 1) = SubSeq(b, 1, n - 1)
                 /\ DigitVal(SubSeq(a, n, n)) < DigitVal(SubSeq(b, n, n))

\* The largest magnitude of a number of kind k of width w, negative or not.
Limit(k, w, negative) ==
    IF k \in IntKinds
    THEN CASE w = 8 -> IF negative THEN "128" ELSE "127"
           [] w = 16 -> IF negative THEN "32768" ELSE "32767"
           [] w = 32 -> IF negative THEN "2147483648" ELSE "2147483647"
           [] w = 64 -> IF negative THEN "9223372036854775808"
                                    ELSE "9223372036854775807"
    ELSE IF negative THEN "0"
    ELSE CASE w = 8 -> "255"
           [] w = 16 -> "65535"
           [] w = 32 -> "4294967295"
           [] w = 64 -> "18446744073709551615"

\* s is a base-10 integer whose value a field of kind k can hold.
FitsKind(s, k) ==
    /\ IsDecimal(s)
    /\ DecLeq(Magnitude(s), Limit(k, Width(k), SubSeq(s, 1, 1) = "-"))

(***************************************************************************)
(* C6: SetField on an integer field of any kind returns an error, and      *)
(* leaves the field as it was, whenever the literal is not a base-10       *)
(* integer or its value does not fit the field's own width: no truncated   *)
(* or wrapped value is stored.                                             *)
(***************************************************************************)
C6_IntegerFitsOrError ==
    (pcSet = "returned" /\ kind \in IntKinds \cup UintKinds /\ ~FitsKind(value, kind))
        => (setErr # NoError /\ field = fieldBefore)

(***************************************************************************)
(* What the passes are given and what they have done, read off the run.    *)
(***************************************************************************)
\* The raw argument list holds a help token.
HasHelpToken == \E n \in 1..Len(osArgs) : osArgs[n] \in {"--help", "-h"}

\* The pass p has run.
Ran(p) == \E n \in 1..Len(hist) : hist[n].pass = p

\* The pass that ran last, and the record as it was before that pass.
LastPass == hist[Len(hist)].pass

BeforeLastPass == hist[Len(hist) - 1].cfg

\* The record before any pass.
AtStart == hist[1].cfg

\* The flag mapping of the raw argument list.
FlagMapping == ParseArgs(osArgs).flags

\* The value a field of descriptor f holds once the literal v of a source is
\* coerced into it.
Coerced(f, cur, v, present) == SetField(f.kind, cur, v, present).val

\* The field declares a short key and the mapping has it.
ShortSupplied(f, fl) == f.short # "" /\ f.short \in DOMAIN fl

\* The flags pass has run and the passes returned no error.
FlagsPassDone == pc = "done" /\ err = NoError /\ Ran("ParseArgs")

\* The part of the error message that names field k in each pass.
DefaultsMarker(k) == "error setting default for field " \o fields[k].name \o ": "

EnvMarker(k) == "error setting environment variable " \o EnvName(fields[k]) \o ": "

FlagsMarker(k) == "error parsing flag --" \o FlagName(fields[k]) \o ": "

\* The literal the pass that ran last has for field k, if it has one.
Supplied(k) ==
    CASE LastPass = "SetDefaults" -> fields[k].default # ""
      [] LastPass = "ParseEnv" -> EnvName(fields[k]) \in DOMAIN env
      [] LastPass = "ParseArgs" ->
            FlagLookup(fields[k].short, FlagName(fields[k]), FlagMapping).found

Literal(k) ==
    CASE LastPass = "SetDefaults" -> fields[k].default
      [] LastPass = "ParseEnv" -> env[EnvName(fields[k])]
      [] LastPass = "ParseArgs" ->
            FlagMapping[FlagLookup(fields[k].short, FlagName(fields[k]),
                                   FlagMapping).key]

\* The pass that ran last returned an error, and the error names field k.
FailedAt(k) ==
    /\ pc = "done"
    /\ err # NoError
    /\ CASE LastPass = "SetDefaults" -> Contains(err, DefaultsMarker(k))
         [] LastPass = "ParseEnv" -> Contains(err, EnvMarker(k))
         [] LastPass = "ParseArgs" -> Contains(err, FlagsMarker(k))

(***************************************************************************)
(* C1: after the defaults, environment and flags passes have run without   *)
(* error, every field holds the value of its highest source: the flag      *)
(* value if its short or long key is in the mapping, else the value of its *)
(* environment variable if set, else its non-empty default, else the value *)
(* it had before the passes.                                               *)
(***************************************************************************)
C1_Resolved(k) ==
    LET f == fields[k]
    IN  IF ShortSupplied(f, FlagMapping)
        THEN Coerced(f, AtStart[k], FlagMapping[f.short], TRUE)
        ELSE IF FlagName(f) \in DOMAIN FlagMapping
        THEN Coerced(f, AtStart[k], FlagMapping[FlagName(f)], TRUE)
        ELSE IF EnvName(f) \in DOMAIN env
        THEN Coerced(f, AtStart[k], env[EnvName(f)], TRUE)
        ELSE IF f.default # ""
        THEN Coerced(f, AtStart[k], f.default, FALSE)
        ELSE AtStart[k]

C1_Precedence ==
    FlagsPassDone => \A k \in 1..Len(fields) : cfg[k] = C1_Resolved(k)

TrueLiterals == {"1", "t", "T", "TRUE", "true", "True"}

FalseLiterals == {"0", "f", "F", "FALSE", "false", "False"}

C7_BoolCall ==
    (pcSet = "returned" /\ kind = "bool") =>
        IF exists /\ value = "" THEN field = TRUE /\ setErr = NoError
        ELSE IF value \in TrueLiterals THEN field = TRUE /\ setErr = NoError
        ELSE IF value \in FalseLiterals THEN field = FALSE /\ setErr = NoError
        ELSE setErr # NoError /\ field = fieldBefore

\* The defaults pass got as far as field k.
DefaultsReached(k) == \A j \in 1..(k - 1) : ~Contains(err, DefaultsMarker(j))

C7_BoolDefault ==
    Ran("SetDefaults") =>
        \A k \in 1..Len(fields) :
            (fields[k].kind = "bool" /\ DefaultsReached(k)) =>
                /\ fields[k].default = "true" => hist[2].cfg[k] = TRUE
                /\ fields[k].default = "false" => hist[2].cfg[k] = FALSE

C7_BooleanCoercion == C7_BoolCall /\ C7_BoolDefault

\* A bare flag: the value is present and empty, and the field became true.
C7_Witness ==
    /\ pcSet = "returned"
    /\ kind = "bool"
    /\ exists
    /\ value = ""
    /\ fieldBefore = FALSE
    /\ field = TRUE
    /\ setErr = NoError

(***************************************************************************)
(* C8: after a flags pass without error, a field holds the coerced value   *)
(* of its short key if it declares one and the mapping has it, else the    *)
(* coerced value of its long key if the mapping has it, and else the value *)
(* it had before the pass: a field with no short tag is changed only when  *)
(* its long key is a key of the mapping.                                   *)
(***************************************************************************)
C8_ShortThenLong ==
    FlagsPassDone =>
        \A k \in 1..Len(fields) :
            cfg[k] = IF ShortSupplied(fields[k], FlagMapping)
                     THEN Coerced(fields[k], BeforeLastPass[k],
                                  FlagMapping[fields[k].short], TRUE)
                     ELSE IF FlagName(fields[k]) \in DOMAIN FlagMapping
                     THEN Coerced(fields[k], BeforeLastPass[k],
                                  FlagMapping[FlagName(fields[k])], TRUE)
                     ELSE BeforeLastPass[k]

(***************************************************************************)
(* C9: when the environment pass or the flags pass fails, the usage        *)
(* (beginning with "Usage:") has been rendered when the error is returned, *)
(* and the flags pass's error names the long flag name of a field whose    *)
(* value did not coerce; when the defaults pass fails nothing is rendered, *)
(* and no later pass has run.                                              *)
(***************************************************************************)
C9_UsageOnFailure ==
    (pc = "done" /\ err # NoError) =>
        CASE LastPass = "SetDefaults" ->
                /\ stdout = <<>>
                /\ Len(hist) = 2
                /\ \E k \in 1..Len(fields) : Contains(err, DefaultsMarker(k))
          [] LastPass = "ParseEnv" ->
                /\ stdout # <<>>
                /\ stdout[Len(stdout)].header = "Usage:"
                /\ stdout[Len(stdout)] = PrintDefaults(fields)
          [] LastPass = "ParseArgs" ->
                /\ stdout # <<>>
                /\ stdout[Len(stdout)].header = "Usage:"
                /\ stdout[Len(stdout)] = PrintDefaults(fields)
                /\ \E k \in 1..Len(fields) :
                       /\ Contains(err, FlagsMarker(k))
                       /\ Supplied(k)
                       /\ SetField(fields[k].kind, cfg[k], Literal(k), TRUE).err
                              # NoError

\* --verbose=maybe: the flags pass fails on Verbose, and the usage is out.
C9_Witness ==
    /\ pc = "done"
    /\ LastPass = "ParseArgs"
    /\ osArgs = <<"--verbose=maybe">>
    /\ Contains(err, "error parsing flag --verbose: ")
    /\ stdout = <<PrintDefaults(fields)>>

(***************************************************************************)
(* C10: when a pass fails at field k, every field before k holds what the  *)
(* pass gave it (the coerced literal if the pass had one for it, else its  *)
(* value before the pass), field k holds the value it had before the pass, *)
(* and no field after k was touched by the pass.                           *)
(***************************************************************************)
C10_NoRollback ==
    (pc = "done" /\ err # NoError) =>
        \E k \in 1..Len(fields) :
            /\ FailedAt(k)
            /\ \A j \in 1..(k - 1) :
                   cfg[j] = IF Supplied(j)
                            THEN Coerced(fields[j], BeforeLastPass[j], Literal(j),
                                         LastPass # "SetDefaults")
                            ELSE BeforeLastPass[j]
            /\ cfg[k] = BeforeLastPass[k]
            /\ \A j \in (k + 1)..Len(fields) : cfg[j] = BeforeLastPass[j]

\* --port=7 --verbose=maybe: the flags pass set PortNumber to 7 before it
\* failed on Verbose, and PortNumber is still 7.
C10_Witness ==
    /\ pc = "done"
    /\ LastPass = "ParseArgs"
    /\ osArgs = <<"--port=7", "--verbose=maybe">>
    /\ FailedAt(3)
    /\ BeforeLastPass[1] = <<80>>
    /\ cfg[1] = <<7>>
    /\ cfg[3] = BeforeLastPass[3]

(***************************************************************************)
(* C11 as stated: SetField on a boolean field with the value present and   *)
(* the literal "false" leaves the field true, and so a flags pass that     *)
(* finds "false" for a boolean field leaves it true.                       *)
(***************************************************************************)
C11_PresenceOverridesLiteral ==
    /\ (pcSet = "returned" /\ kind = "bool" /\ exists /\ value = "false")
           => (field = TRUE /\ setErr = NoError)
    /\ FlagsPassDone =>
           \A k \in 1..Len(fields) :
               (fields[k].kind = "bool" /\ Supplied(k) /\ Literal(k) = "false")
                   => cfg[k] = TRUE

(***************************************************************************)
(* C11 as amended: SetField on a boolean field with the value present and  *)
(* the literal "false" stores false without error (presence makes the      *)
(* field true only when the value is empty), and so a flags pass that      *)
(* finds "false" for a boolean field leaves it false.                      *)
(***************************************************************************)
C11_PresentFalseStoresFalse ==
    /\ (pcSet = "returned" /\ kind = "bool" /\ exists /\ value = "false")
           => (field = FALSE /\ setErr = NoError)
    /\ FlagsPassDone =>
           \A k \in 1..Len(fields) :
               (fields[k].kind = "bool" /\ Supplied(k) /\ Literal(k) = "false")
                   => cfg[k] = FALSE

\* VERBOSE=1 made Verbose true, and --verbose=false made it false again.
C11_Witness ==
    /\ pc = "done"
    /\ err = NoError
    /\ LastPass = "ParseArgs"
    /\ osArgs = <<"--verbose=false">>
    /\ env = ("VERBOSE" :> "1")
    /\ BeforeLastPass[3] = TRUE
    /\ cfg[3] = FALSE

(***************************************************************************)
(* What the pass that ran last makes of field j taken on its own: the      *)
(* coerced literal if the pass has one for the field and it coerces, else  *)
(* the value the field had before the pass.                                *)
(***************************************************************************)
Alone(j) ==
    IF Supplied(j)
    THEN Coerced(fields[j], BeforeLastPass[j], Literal(j), LastPass # "SetDefaults")
    ELSE BeforeLastPass[j]

\* The pass that ran last has a literal for field k that does not coerce.
Fails(k) ==
    /\ Supplied(k)
    /\ SetField(fields[k].kind, BeforeLastPass[k], Literal(k),
                LastPass # "SetDefaults").err # NoError

\* A pass has run.
AfterPass == Len(hist) >= 2

\* Calling the pass that has just run once more changes neither the record
\* nor the error returned.
C12_RepeatStep ==
    (pc # "repeated" /\ pc' = "repeated") => (cfg' = cfg /\ err' = err)

\* Every field holds what the pass makes of it taken on its own.
C12_Independent ==
    AfterPass => \A j \in 1..Len(fields) : cfg[j] = Alone(j)

\* Every field up to the first one that fails holds what the pass makes of
\* it taken on its own, and every field after it is as before the pass.
C12_IndependentUpToFailure ==
    AfterPass =>
        \A j \in 1..Len(fields) :
            cfg[j] = IF \E k \in 1..(j - 1) : Fails(k)
                     THEN BeforeLastPass[j]
                     ELSE Alone(j)

(***************************************************************************)
(* C12 as stated: each pass called twice in a row leaves the record as one *)
(* call does, and the value a pass leaves in a field is what it makes of   *)
(* that field alone, whatever happens to the other fields (a failure of    *)
(* another field included).                                                *)
(***************************************************************************)
C12_IdempotentAndIndependent ==
    [][C12_RepeatStep]_vars /\ []C12_Independent

(***************************************************************************)
(* C12 as amended: each pass called twice in a row leaves the record and   *)
(* the error as one call does; the value a pass leaves in a field is what  *)
(* it makes of that field alone unless a field before it in declaration    *)
(* order fails, in which case the pass has returned and the field is as it *)
(* was before the pass.                                                    *)
(***************************************************************************)
C12_IdempotentAndIndependentUpToFailure ==
    [][C12_RepeatStep]_vars /\ []C12_IndependentUpToFailure

\* HOST_NAME=1 and VERBOSE=x: the environment pass was called twice, failed
\* on Verbose both times, and HostName holds 1 as after the first call.
C12_Witness ==
    /\ pc = "repeated"
    /\ LastPass = "ParseEnv"
    /\ env = ("HOST_NAME" :> "1" @@ "VERBOSE" :> "x")
    /\ err # NoError
    /\ cfg[2] = "1"
    /\ cfg = hist[Len(hist) - 1].cfg

====
